---- MODULE Spec2Model ----
(***************************************************************************)
(* QR tracking backends: the scan-tracking and redirect pipeline of the    *)
(* three variants of the repository,                                       *)
(*   "sync"     qr_tracking_system/app_original.py (insert, then an HTML   *)
(*              redirect page carrying the follow-up script),              *)
(*   "deferred" qr_tracking_system/app.py (307 redirect, insert in a       *)
(*              background task),                                          *)
(*   "flask"    search_strategy/app.py (table tracking_data; its columns   *)
(*              campaign, access_time, redirect_time, completed_redirect   *)
(*              are named here as in the scans table: campaign_code,       *)
(*              scan_timestamp, redirect_timestamp, redirect_completed).   *)
(* The relational store is the only shared state.  A handler is split      *)
(* where it opens a new database transaction after reading from an         *)
(* earlier one (campaign lookup / scan insert, completion read / write,    *)
(* the SELECT and the UPDATE of a pause),                                  *)
(* so that requests served by different workers interleave there.          *)
(* Time is counted in ticks; the server's local zone is taken to be UTC.   *)
(***************************************************************************)
EXTENDS Integers, Sequences, FiniteSets, TLC

\* ---------------------------------------------------------------- bounds
MaxScans == 2          \* session ids handed out (tracking requests past validation)
MaxTime == 2           \* last tick of the server clock
MaxPending == 1        \* tracking requests between lookup and insert
MaxInflight == 1       \* completion calls between their read and their update
TicksPerSecond == 2    \* resolution of the clock
MaxStaged == 2         \* campaign creates between their pre-check and their INSERT
MaxBackups == 1        \* manual backup files in the backups directory
MaxWorkers == 2        \* requests side by side in a concurrent deployment
MaxPatterns == 3       \* patterns of the classifier that occur in one User-Agent

\* ---------------------------------------------------------------- values
NULL == <<>>                           \* SQL NULL / Python None / absent JSON key
Some(v) == <<v>>                       \* a nullable column or field holding v
SearchPrefix == "https://google.com/search?q="
SeedCode == "cc_sambil"
SeedClient == "Samsung"
SeedDestination == "https://www.samsung.com/ve"
GhostCode == "ghost"                   \* a code no request ever creates
NewCode == "promo_2x1"                 \* a code the administration creates
ScanDevice == "totem_entrada_principal" \* the device_id in every QR scanned
AltDestination == "https://alt.example/landing"
ParamDestination == "https://param.example/direct"
UnknownSid == 0                        \* a session id no tracking request was given

Variants == {"sync", "deferred", "flask"}
Codes == {SeedCode, GhostCode}
\* the sessions the follow-up calls name: one no request was given, and the
\* first one handed out (rows are alike, so one row stands for any)
FollowUpSids == {UnknownSid, 1}

\* ISO-8601 strings: tz = "" is a string without offset (isoformat() of a
\* naive datetime, CURRENT_TIMESTAMP), tz = "Z" one with the UTC designator
\* (Date.toISOString()).
IsoString(t, tz) == [t |-> t, tz |-> tz]

\* ---------------------------------------------------------------- state
\* devices is the physical_devices table, staged the campaign creates past
\* their pre-check whose INSERT has not run, backups the database files in
\* the backups directory, workers the number of requests of one route the
\* deployment processes at a time, device_info the latest classification of
\* a User-Agent, toggling the pause requests between their SELECT and their
\* UPDATE
VARIABLES variant, workers, device_info, toggling, devices, staged, backups, campaigns,
          scans, pending, inflight, nextSid, now, failures, last
vars == <<variant, workers, device_info, toggling, devices, staged, backups, campaigns,
          scans, pending, inflight, nextSid, now, failures, last>>

\* ---------------------------------------------------------------- requests
TrackRequest(campaign, destination, client, utm_source) ==
    [campaign |-> campaign, destination |-> destination, client |-> client,
     utm_source |-> utm_source]

TrackRequests ==
    { TrackRequest("", "", "", ""),
      TrackRequest("", ParamDestination, "ParamCo", ""),
      TrackRequest(SeedCode, "", "", ""),
      TrackRequest(SeedCode, ParamDestination, "", ""),
      TrackRequest(SeedCode, "", "", "flyer"),
      TrackRequest(GhostCode, "", "", ""),
      TrackRequest(GhostCode, ParamDestination, "", "") }

\* the scan a follow-up call refers to comes from a plain QR scan
ScanRequest == TrackRequest(SeedCode, "", "", "")
\* the requests that name the seed campaign
CampaignRequests == { req \in TrackRequests : req.campaign = SeedCode }

EnrichColumns == {"screen_resolution", "viewport_size", "timezone", "language",
                  "platform", "connection_type", "cpu_cores", "device_pixel_ratio"}

FullData(sid) ==
    [session_id |-> sid, screen_resolution |-> Some("390x844"),
     viewport_size |-> Some("390x664"), timezone |-> Some("America/Caracas"),
     language |-> Some("es-VE"), platform |-> Some("iPhone"),
     connection_type |-> Some("4g"), cpu_cores |-> Some(8),
     device_pixel_ratio |-> Some(3)]

PartialData(sid) ==
    [session_id |-> sid, screen_resolution |-> NULL, viewport_size |-> NULL,
     timezone |-> Some("America/Caracas"), language |-> NULL, platform |-> NULL,
     connection_type |-> NULL, cpu_cores |-> Some(8), device_pixel_ratio |-> NULL]

\* a client can name a session once its id has left the server: with the
\* redirect page, which is built after the INSERT (app.py generates the id
\* before its background insert); any other id it sends matches nothing
Issued(sid) ==
    \/ sid = UnknownSid
    \/ IF variant = "deferred" THEN sid < nextSid
       ELSE \E i \in 1..Len(scans) : scans[i].session_id = sid

DeviceDataUpdates ==
    { d \in { FullData(s) : s \in FollowUpSids } \cup { PartialData(1) } :
        Issued(d.session_id) }

CompleteRequest(sid, scan_id, completion_time) ==
    [session_id |-> sid, scan_id |-> scan_id, completion_time |-> completion_time]

\* completion times a client sends: what the redirect page's script sends
\* (toISOString, with "Z"), the same instant without designator, and a
\* later one
PageTime == Some(IsoString(MaxTime, "Z"))
NaiveTime == Some(IsoString(MaxTime, ""))
LaterTime == Some(IsoString(MaxTime + 1, ""))

\* the Flask handler reads session_id only, whatever else the body carries
CompleteRequests ==
    { req \in
        IF variant = "flask"
        THEN { CompleteRequest(s, NULL, LaterTime) : s \in FollowUpSids }
        ELSE { CompleteRequest(1, Some(1), c) : c \in {PageTime, NaiveTime, LaterTime} }
             \cup { CompleteRequest(1, NULL, NaiveTime),
                    CompleteRequest(1, Some(2), NaiveTime),
                    CompleteRequest(UnknownSid, Some(1), NaiveTime) } :
        Issued(req.session_id) }

\* completion calls with and without completion_time
RepeatedCompletes ==
    { req \in
        IF variant = "flask"
        THEN { CompleteRequest(1, NULL, LaterTime) }
        ELSE { CompleteRequest(1, Some(1), NaiveTime), CompleteRequest(1, Some(1), NULL) } :
        Issued(req.session_id) }

CampaignRow(code, client, destination, active) ==
    [campaign_code |-> code, client |-> client, destination |-> destination,
     active |-> active]

CampaignCreates ==
    { CampaignRow(SeedCode, SeedClient, SeedDestination, TRUE),
      CampaignRow(SeedCode, SeedClient, "", TRUE) }

CampaignUpdates == { [destination |-> Some(AltDestination)] }

\* what the administration pages send: the seed campaign, and two creates
\* of one new code that differ in what they would store
SeedCampaign == CampaignRow(SeedCode, SeedClient, SeedDestination, TRUE)
AdminCreates ==
    { SeedCampaign,
      CampaignRow(NewCode, "Acme", AltDestination, TRUE),
      CampaignRow(NewCode, "Bravo", ParamDestination, FALSE) }
AdminCodes == {SeedCode, NewCode, GhostCode}

DeviceRow(device_id, device_name, active) ==
    [device_id |-> device_id, device_name |-> device_name, active |-> active]

SeedDevice == DeviceRow(ScanDevice, "Totem Digital Principal", TRUE)
DeviceCreates == { SeedDevice, DeviceRow(ScanDevice, "Totem Anexo", FALSE) }

DeviceUpdates == { [device_name |-> Some("Totem Feria")] }

\* the two FastAPI services
FastApi == variant \in {"sync", "deferred"}

\* ---------------------------------------------------------------- tables
\* campaigns is the set of rows of the campaigns table; scans the rows of
\* scans (tracking_data in the Flask variant) in insertion order, so that
\* with AUTOINCREMENT ids and no DELETE a row's id is its position.
CampaignsWhere(code) == { c \in campaigns : c.campaign_code = code }
RowsOfSession(sid) == { i \in 1..Len(scans) : scans[i].session_id = sid }

Response(op, req, status, kind, target, success, sid) ==
    [op |-> op, req |-> req, status |-> status, kind |-> kind, target |-> target,
     success |-> success, session_id |-> sid]

\* a step that sends no response
NoResponse == Response("none", NULL, 0, "none", "", FALSE, UnknownSid)

\* the empty database of a FastAPI service, the seeded one of the Flask
\* service, and nothing in progress
Start ==
    /\ variant \in Variants
    /\ device_info = NULL
    /\ toggling = {}
    /\ devices = IF variant = "flask" THEN {SeedDevice} ELSE {}
    /\ staged = {}
    /\ backups = {}
    /\ campaigns = IF variant = "flask"
                   THEN { CampaignRow(SeedCode, SeedClient, SeedDestination, TRUE) }
                   ELSE {}
    /\ scans = <<>>
    /\ pending = {}
    /\ inflight = {}
    /\ nextSid = 1
    /\ now = 0
    /\ failures = 0
    /\ last = NoResponse

\* one request of a route at a time
Init == workers = MaxPending /\ Start

\* a deployment that processes requests of one route side by side
InitConcurrent == workers = MaxWorkers /\ Start

\* ---------------------------------------------------------------- tracking
\* fault injection: an identifier scheme that hands the previous identifier out again
uuid4Repeating == IF nextSid > 1 THEN nextSid - 1 ELSE nextSid

\* str(uuid.uuid4()): an identifier no earlier request was given
uuid4 == nextSid

\* fault injection: a fallback that forgets the code
FallbackWithoutCode(campaign_code) == SearchPrefix

\* f"https://google.com/search?q={campaign_code}"
Fallback(campaign_code) == SearchPrefix \o campaign_code

\* fault injection: a validation that lets a request through when it names a destination
CampaignMissingUnlessDestination(req) == req.campaign = "" /\ req.destination = ""

\* "if not campaign_code": the parameter is absent or empty
CampaignMissing(req) == req.campaign = ""

OneOf(S) == CHOOSE x \in S : TRUE

\* fault injection: the stored destination wins over the parameter
ResolveSyncStoredFirst(req, found) ==
    LET destination == IF found # {} /\ OneOf(found).destination # ""
                       THEN OneOf(found).destination ELSE req.destination
    IN  [destination |-> IF destination = "" THEN SearchPrefix \o req.campaign
                         ELSE destination,
         client |-> req.client]

\* app_original.py: the campaign is always looked up; a parameter wins over
\* the stored value, an empty result falls back to the search URL
ResolveSync(req, found) ==
    LET destination == IF found # {} /\ req.destination = ""
                       THEN OneOf(found).destination ELSE req.destination
        client == IF found # {} /\ req.client = ""
                  THEN OneOf(found).client ELSE req.client
    IN  [destination |-> IF destination = "" THEN Fallback(req.campaign) ELSE destination,
         client |-> client]

\* fault injection: the lookup result is dropped
ResolveDeferredNoLookup(req, found) ==
    [destination |-> IF req.destination = "" THEN SearchPrefix \o req.campaign
                     ELSE req.destination,
     client |-> req.client]

\* fault injection: a lookup that finds active campaigns only
ResolveDeferredActiveOnly(req, found) ==
    LET destination == IF req.destination = "" /\ \E c \in found : c.active
                       THEN OneOf(found).destination ELSE req.destination
    IN  [destination |-> IF destination = "" THEN SearchPrefix \o req.campaign
                         ELSE destination,
         client |-> req.client]

\* app.py: the campaign is looked up only when no destination parameter
\* came; the client is the request parameter, never the stored one
ResolveDeferred(req, found) ==
    LET destination == IF req.destination = "" /\ found # {}
                       THEN OneOf(found).destination ELSE req.destination
    IN  [destination |-> IF destination = "" THEN Fallback(req.campaign) ELSE destination,
         client |-> req.client]

Task(sid, req, campaign_code, resolved, found) ==
    [session_id |-> sid, req |-> req, campaign_code |-> campaign_code,
     client |-> resolved.client, destination |-> resolved.destination,
     stored |-> found]

\* GET /track of the FastAPI variants up to the resolved destination; the
\* deferred variant schedules the insert and answers 307 here
track_qr_scan(req) ==
    /\ variant \in {"sync", "deferred"}
    /\ UNCHANGED <<variant, workers, device_info, toggling, devices, staged, backups, campaigns, scans, inflight, now, failures>>
    /\ IF CampaignMissing(req)
       THEN /\ last' = Response("track", req, 400, "error", "", FALSE, UnknownSid)
            /\ UNCHANGED <<pending, nextSid>>
       ELSE /\ nextSid <= MaxScans
            /\ Cardinality(pending) < workers
            /\ LET found == CampaignsWhere(req.campaign)
                   resolved == IF variant = "sync" THEN ResolveSync(req, found)
                               ELSE ResolveDeferred(req, found)
               IN  /\ pending' = pending \cup
                                   {Task(uuid4, req, req.campaign, resolved, found)}
                   /\ last' = IF variant = "deferred"
                              THEN Response("track", req, 307, "redirect",
                                            resolved.destination, FALSE, uuid4)
                              ELSE NoResponse
            /\ nextSid' = nextSid + 1

\* fault injection: a lookup that finds inactive campaigns too
get_campaign_any(campaign_code) == { c \in campaigns : c.campaign_code = campaign_code }

\* get_campaign_info: only active campaigns are found
get_campaign_info(campaign_code) == { c \in CampaignsWhere(campaign_code) : c.active }

\* GET /track of the Flask variant up to the resolved destination
track_access(req) ==
    /\ variant = "flask"
    /\ UNCHANGED <<variant, workers, device_info, toggling, devices, staged, backups, campaigns, scans, inflight, now, failures>>
    /\ LET direct == req.campaign = "" /\ req.destination # ""
           lookup == req.campaign # "" /\ req.destination = ""
           found == get_campaign_info(req.campaign)
           campaign == IF direct THEN "direct_link" ELSE req.campaign
           resolved == IF direct
                       THEN [destination |-> req.destination, client |-> "unknown"]
                       ELSE IF lookup /\ found # {}
                       THEN [destination |-> OneOf(found).destination,
                             client |-> OneOf(found).client]
                       ELSE [destination |-> req.destination, client |-> req.client]
       IN  IF lookup /\ found = {}
           THEN /\ last' = Response("track", req, 404, "error", "", FALSE, UnknownSid)
                /\ UNCHANGED <<pending, nextSid>>
           ELSE IF resolved.destination = ""
           THEN /\ last' = Response("track", req, 400, "error", "", FALSE, UnknownSid)
                /\ UNCHANGED <<pending, nextSid>>
           ELSE /\ nextSid <= MaxScans
                /\ Cardinality(pending) < workers
                /\ pending' = pending \cup
                      {Task(uuid4, req, campaign, resolved, CampaignsWhere(req.campaign))}
                /\ last' = NoResponse
                /\ nextSid' = nextSid + 1

\* the row INSERT INTO scans / tracking_data writes for a resolved request:
\* app_original.py stores the UTM parameters, the other two have no such
\* column values; every column the statement does not name takes its default
\* fault injection: a row that is born completed
NewScanCompleted(task) ==
    [id |-> Len(scans) + 1,
     session_id |-> task.session_id,
     campaign_code |-> task.campaign_code,
     client |-> task.client,
     destination |-> task.destination,
     device_id |-> ScanDevice,
     utm_source |-> IF variant = "sync" THEN Some(task.req.utm_source) ELSE NULL,
     scan_timestamp |-> Some(IsoString(now, "")),
     screen_resolution |-> NULL, viewport_size |-> NULL, timezone |-> NULL,
     language |-> NULL, platform |-> NULL, connection_type |-> NULL,
     cpu_cores |-> NULL, device_pixel_ratio |-> NULL,
     redirect_completed |-> TRUE,
     redirect_timestamp |-> NULL,
     duration_seconds |-> NULL]

\* fault injection: an INSERT that reads the campaign's destination again
NewScanRereading(task) ==
    [NewScanCompleted(task) EXCEPT
        !.redirect_completed = FALSE,
        !.destination = IF CampaignsWhere(task.campaign_code) = {}
                        THEN Fallback(task.campaign_code)
                        ELSE OneOf(CampaignsWhere(task.campaign_code)).destination]

NewScan(task) ==
    [id |-> Len(scans) + 1,
     session_id |-> task.session_id,
     campaign_code |-> task.campaign_code,
     client |-> task.client,
     destination |-> task.destination,
     device_id |-> ScanDevice,
     utm_source |-> IF variant = "sync" THEN Some(task.req.utm_source) ELSE NULL,
     scan_timestamp |-> Some(IsoString(now, "")),
     screen_resolution |-> NULL, viewport_size |-> NULL, timezone |-> NULL,
     language |-> NULL, platform |-> NULL, connection_type |-> NULL,
     cpu_cores |-> NULL, device_pixel_ratio |-> NULL,
     redirect_completed |-> FALSE,
     redirect_timestamp |-> NULL,
     duration_seconds |-> NULL]

\* session_id is UNIQUE in tracking_data only
InsertAccepted(task) == variant = "flask" => RowsOfSession(task.session_id) = {}

\* the second half of GET /track in the variants that insert before they
\* answer: the INSERT, then the redirect page built around the destination
track_insert(task) ==
    /\ variant \in {"sync", "flask"}
    /\ task \in pending
    /\ pending' = pending \ {task}
    /\ UNCHANGED <<variant, workers, device_info, toggling, devices, staged, backups, campaigns, inflight, nextSid, now, failures>>
    /\ IF InsertAccepted(task)
       THEN /\ scans' = Append(scans, NewScan(task))
            /\ last' = Response("track", task.req, 200, "redirect", task.destination,
                                FALSE, task.session_id)
       ELSE /\ scans' = scans
            /\ last' = Response("track", task.req, 500, "error", "", FALSE,
                                task.session_id)

\* the background task of the deferred variant
process_scan_background(task) ==
    /\ variant = "deferred"
    /\ task \in pending
    /\ pending' = pending \ {task}
    /\ scans' = Append(scans, NewScan(task))
    /\ last' = Response("process_scan_background", task.req, 0, "none", "", FALSE,
                        task.session_id)
    /\ UNCHANGED <<variant, workers, device_info, toggling, devices, staged, backups, campaigns, inflight, nextSid, now, failures>>

\* the store rejects or loses the INSERT: the insert-first variants answer
\* 500 from the handler's except branch, the background task logs the error
insert_failure(task) ==
    /\ task \in pending
    /\ pending' = pending \ {task}
    /\ failures' = failures + 1
    /\ last' = IF variant = "deferred"
               THEN Response("process_scan_background", task.req, 0, "logged", "",
                             FALSE, task.session_id)
               ELSE Response("track", task.req, 500, "error", "", FALSE,
                             task.session_id)
    /\ UNCHANGED <<variant, workers, device_info, toggling, devices, staged, backups, campaigns, scans, inflight, nextSid, now>>

\* the store fails the SELECT on campaigns of a request that runs one (app.py
\* and the Flask service look up only when no destination came): the
\* handler's except branch answers 500, nothing was inserted or scheduled
lookup_failure(req) ==
    /\ req.campaign # ""
    /\ variant = "sync" \/ req.destination = ""
    /\ last' = Response("track", req, 500, "error", "", FALSE, UnknownSid)
    /\ UNCHANGED <<variant, workers, device_info, toggling, devices, staged, backups, campaigns, scans, pending, inflight,
                   nextSid, now, failures>>

\* ---------------------------------------------------------------- enrichment
\* fault injection: an UPDATE that also refreshes the row's timestamp
SetDeviceDataTouching(row, d) ==
    [row EXCEPT !.screen_resolution = d.screen_resolution,
                !.viewport_size = d.viewport_size,
                !.timezone = d.timezone,
                !.language = d.language,
                !.platform = d.platform,
                !.connection_type = d.connection_type,
                !.cpu_cores = d.cpu_cores,
                !.device_pixel_ratio = d.device_pixel_ratio,
                !.scan_timestamp = Some(IsoString(now, ""))]

\* fault injection: an UPDATE that keeps a column the call leaves out
\* (COALESCE(?, column))
SetDeviceDataMerging(row, d) ==
    [col \in DOMAIN row |->
        IF col \in EnrichColumns /\ d[col] # NULL THEN d[col] ELSE row[col]]

\* UPDATE scans SET <the eight columns> WHERE session_id = ?
SetDeviceData(row, d) ==
    [row EXCEPT !.screen_resolution = d.screen_resolution,
                !.viewport_size = d.viewport_size,
                !.timezone = d.timezone,
                !.language = d.language,
                !.platform = d.platform,
                !.connection_type = d.connection_type,
                !.cpu_cores = d.cpu_cores,
                !.device_pixel_ratio = d.device_pixel_ratio]

\* POST /api/track/device-data (app_original.py)
track_device_data(d) ==
    /\ variant = "sync"
    /\ scans' = [i \in 1..Len(scans) |->
                   IF scans[i].session_id = d.session_id
                   THEN SetDeviceData(scans[i], d) ELSE scans[i]]
    /\ last' = Response("device-data", d, 200, "json", "",
                        RowsOfSession(d.session_id) # {}, d.session_id)
    /\ UNCHANGED <<variant, workers, device_info, toggling, devices, staged, backups, campaigns, pending, inflight, nextSid, now, failures>>

\* data.get('screen_resolution', ''): an absent key reads as the empty string
GetOrEmpty(field) == IF field = NULL THEN Some("") ELSE field

\* POST /collect-data (Flask): of the fields it reads only screen_resolution
\* is written; the answer does not depend on whether a row matched
collect_additional_data(d) ==
    /\ variant = "flask"
    /\ scans' = [i \in 1..Len(scans) |->
                   IF scans[i].session_id = d.session_id
                   THEN [scans[i] EXCEPT
                           !.screen_resolution = GetOrEmpty(d.screen_resolution)]
                   ELSE scans[i]]
    /\ last' = Response("device-data", d, 200, "json", "", TRUE, d.session_id)
    /\ UNCHANGED <<variant, workers, device_info, toggling, devices, staged, backups, campaigns, pending, inflight, nextSid, now, failures>>

\* ---------------------------------------------------------------- completion
\* datetime.fromisoformat(s.replace("Z", "+00:00")) carries a tzinfo
Aware(s) == s.tz = "Z"
\* end_time - start_time is defined (else TypeError: offset-naive and
\* offset-aware datetimes cannot be subtracted)
Subtracts(end, start) == Aware(end) = Aware(start)
\* (end_time - start_time).total_seconds(), in ticks
total_seconds(end, start) == end.t - start.t
\* int(x) of a number of seconds x given in ticks: truncation toward zero
IntSeconds(ticks) ==
    (IF ticks >= 0 THEN ticks \div TicksPerSecond ELSE -((-ticks) \div TicksPerSecond))
        * TicksPerSecond

\* the duration complete_tracking computes from the row it read; the
\* parsing and the subtraction sit in a try whose except is "pass" in
\* app_original.py and are unguarded in app.py (see ComputeRaises)
ComputeDuration(result, completion_time) ==
    IF result # NULL /\ completion_time # NULL
       /\ Subtracts(completion_time[1], result[1])
    THEN Some(total_seconds(completion_time[1], result[1]))
    ELSE NULL

ComputeRaises(result, completion_time) ==
    /\ result # NULL
    /\ completion_time # NULL
    /\ ~Subtracts(completion_time[1], result[1])

\* fault injection: the row is looked for by session_id alone
CompletionRowsBySession(req) == RowsOfSession(req.session_id)

\* WHERE id = ? AND session_id = ? (FastAPI), WHERE session_id = ? (Flask)
CompletionRows(req) ==
    IF variant = "flask"
    THEN RowsOfSession(req.session_id)
    ELSE { i \in RowsOfSession(req.session_id) : req.scan_id = Some(scans[i].id) }

\* the completion handler up to its SELECT of the row's scan_timestamp (only
\* the Flask handler takes the clock before it)
complete_read(req) ==
    /\ UNCHANGED <<variant, workers, device_info, toggling, devices, staged, backups, campaigns, scans, pending, nextSid, now, failures>>
    /\ IF variant # "flask" /\ req.scan_id = NULL
       THEN /\ last' = Response("complete", req, 200, "json", "", FALSE, req.session_id)
            /\ inflight' = inflight
       ELSE /\ Cardinality(inflight) < MaxInflight
            /\ LET rows == CompletionRows(req)
               IN  inflight' = inflight \cup
                     {[req |-> req,
                       result |-> IF rows = {} THEN NULL
                                  ELSE scans[OneOf(rows)].scan_timestamp,
                       redirect_time |-> IF variant = "flask" THEN now ELSE 0]}
            /\ last' = NoResponse

\* fault injection: an UPDATE that stores the duration without the flag
SetDurationOnly(row, duration) ==
    [row EXCEPT !.redirect_timestamp = Some(IsoString(now, "")),
                !.duration_seconds = duration]

\* fault injection: an UPDATE whose flag follows the presence of a duration
SetCompletedIfTimed(row, duration) ==
    [row EXCEPT !.redirect_completed = (duration # NULL),
                !.redirect_timestamp = Some(IsoString(now, "")),
                !.duration_seconds = duration]

\* the completion columns the UPDATE of complete_tracking sets
SetCompleted(row, duration) ==
    [row EXCEPT !.redirect_completed = TRUE,
                !.redirect_timestamp = Some(IsoString(now, "")),
                !.duration_seconds = duration]

\* POST /api/track/complete from the computation of the duration on
complete_tracking(c) ==
    /\ variant \in {"sync", "deferred"}
    /\ c \in inflight
    /\ inflight' = inflight \ {c}
    /\ UNCHANGED <<variant, workers, device_info, toggling, devices, staged, backups, campaigns, pending, nextSid, now, failures>>
    /\ IF variant = "deferred" /\ ComputeRaises(c.result, c.req.completion_time)
       THEN /\ scans' = scans
            /\ last' = Response("complete", c.req, 200, "json", "", FALSE,
                                c.req.session_id)
       ELSE /\ scans' = [i \in 1..Len(scans) |->
                           IF i \in CompletionRows(c.req)
                           THEN SetCompleted(scans[i],
                                    ComputeDuration(c.result, c.req.completion_time))
                           ELSE scans[i]]
            /\ last' = Response("complete", c.req, 200, "json", "", TRUE,
                                c.req.session_id)

\* POST /complete-redirect (Flask) from the computation of the duration on:
\* the end of the interval is the server's clock taken before the SELECT
complete_redirect(c) ==
    /\ variant = "flask"
    /\ c \in inflight
    /\ inflight' = inflight \ {c}
    /\ UNCHANGED <<variant, workers, device_info, toggling, devices, staged, backups, campaigns, pending, nextSid, now, failures>>
    /\ scans' = [i \in 1..Len(scans) |->
                   IF c.result # NULL /\ i \in CompletionRows(c.req)
                   THEN [scans[i] EXCEPT
                           !.redirect_timestamp = Some(IsoString(c.redirect_time, "")),
                           !.duration_seconds =
                               Some(IntSeconds(c.redirect_time - c.result[1].t)),
                           !.redirect_completed = TRUE]
                   ELSE scans[i]]
    /\ last' = Response("complete", c.req, 200, "json", "", TRUE, c.req.session_id)

\* ---------------------------------------------------------------- campaigns
\* urlparse(u) has a scheme and a netloc
ValidUrl(u) == u \in {SeedDestination, AltDestination, ParamDestination}

\* fault injection: a campaigns table without its UNIQUE constraint
CodeNeverTaken(code) == FALSE

\* campaign_code TEXT UNIQUE NOT NULL: what makes an INSERT of that code fail
CodeTaken(code) == CampaignsWhere(code) # {}

\* POST /api/campaigns. The FastAPI handlers run one INSERT and turn its
\* IntegrityError into a failure body. The Flask handler validates, looks
\* the code up and only then inserts, in a threaded server: a request past
\* the lookup is staged until create_campaign_insert runs its INSERT.
create_campaign(c) ==
    /\ UNCHANGED <<variant, workers, device_info, toggling, devices, backups, scans, pending, inflight, nextSid, now, failures>>
    /\ IF variant = "flask"
       THEN IF c.client = "" \/ ~ValidUrl(c.destination)
            THEN /\ last' = Response("create_campaign", c, 400, "json", "", FALSE, UnknownSid)
                 /\ UNCHANGED <<campaigns, staged>>
            ELSE IF CampaignsWhere(c.campaign_code) # {}
            THEN /\ last' = Response("create_campaign", c, 409, "json", "", FALSE, UnknownSid)
                 /\ UNCHANGED <<campaigns, staged>>
            ELSE /\ Cardinality(staged) < MaxStaged
                 /\ staged' = staged \cup {c}
                 /\ last' = NoResponse
                 /\ UNCHANGED campaigns
       ELSE /\ UNCHANGED staged
            /\ IF CodeTaken(c.campaign_code)
               THEN /\ campaigns' = campaigns
                    /\ last' = Response("create_campaign", c, 200, "json", "", FALSE, UnknownSid)
               ELSE /\ campaigns' = campaigns \cup {c}
                    /\ last' = Response("create_campaign", c, 200, "json", "", TRUE, UnknownSid)

\* the INSERT of the Flask handler and its answer: an IntegrityError falls
\* into the handler's generic except, 500 with a failure body
create_campaign_insert(c) ==
    /\ variant = "flask"
    /\ c \in staged
    /\ staged' = staged \ {c}
    /\ UNCHANGED <<variant, workers, device_info, toggling, devices, backups, scans, pending, inflight, nextSid, now, failures>>
    /\ IF CodeTaken(c.campaign_code)
       THEN /\ campaigns' = campaigns
            /\ last' = Response("create_campaign", c, 500, "json", "", FALSE, UnknownSid)
       ELSE /\ campaigns' = campaigns \cup {c}
            /\ last' = Response("create_campaign", c, 200, "json", "", TRUE, UnknownSid)

\* PUT /api/campaigns/{code} with a destination
update_campaign(code, u) ==
    /\ UNCHANGED <<variant, workers, device_info, toggling, devices, staged, backups, scans, pending, inflight, nextSid, now, failures>>
    /\ IF CampaignsWhere(code) = {}
       THEN /\ campaigns' = campaigns
            /\ last' = Response("update_campaign", u,
                                IF variant = "flask" THEN 404 ELSE 200,
                                "json", "", FALSE, UnknownSid)
       ELSE IF variant = "flask" /\ ~ValidUrl(u.destination[1])
       THEN /\ campaigns' = campaigns
            /\ last' = Response("update_campaign", u, 400, "json", "", FALSE, UnknownSid)
       ELSE /\ campaigns' = { IF c.campaign_code = code
                              THEN [c EXCEPT !.destination = u.destination[1]]
                              ELSE c : c \in campaigns }
            /\ last' = Response("update_campaign", u, 200, "json", "", TRUE, UnknownSid)

\* PUT /api/campaigns/{code}/pause (app_original.py): toggles active
pause_campaign(code) ==
    /\ variant = "sync"
    /\ UNCHANGED <<variant, workers, device_info, toggling, devices, staged, backups, scans, pending, inflight, nextSid, now, failures>>
    /\ IF CampaignsWhere(code) = {}
       THEN /\ campaigns' = campaigns
            /\ last' = Response("pause_campaign", code, 200, "json", "", FALSE, UnknownSid)
       ELSE /\ campaigns' = { IF c.campaign_code = code
                              THEN [c EXCEPT !.active = ~c.active]
                              ELSE c : c \in campaigns }
            /\ last' = Response("pause_campaign", code, 200, "json", "", TRUE, UnknownSid)

\* the same handler where requests are served side by side: its SELECT of
\* active, after which the request holds the value it has read ...
pause_select(code) ==
    /\ variant = "sync"
    /\ UNCHANGED <<variant, workers, device_info, devices, staged, backups, campaigns, scans, pending, inflight, nextSid, now, failures>>
    /\ IF CampaignsWhere(code) = {}
       THEN /\ toggling' = toggling
            /\ last' = Response("pause_campaign", code, 200, "json", "", FALSE, UnknownSid)
       ELSE /\ Cardinality(toggling) < workers
            /\ LET free == { n \in 1..workers : \A p \in toggling : p.request # n }
               IN  toggling' = toggling \cup
                     {[request |-> CHOOSE n \in free : \A m \in free : n <= m,
                       code |-> code,
                       current_active |-> OneOf(CampaignsWhere(code)).active]}
            /\ last' = NoResponse

\* ... and its UPDATE, which stores the negation of the value read
pause_update(p) ==
    /\ variant = "sync"
    /\ p \in toggling
    /\ toggling' = toggling \ {p}
    /\ campaigns' = { IF c.campaign_code = p.code
                      THEN [c EXCEPT !.active = ~p.current_active]
                      ELSE c : c \in campaigns }
    /\ last' = Response("pause_campaign", p.code, 200, "json", "", TRUE, UnknownSid)
    /\ UNCHANGED <<variant, workers, device_info, devices, staged, backups, scans, pending, inflight, nextSid, now, failures>>

\* fault injection: scan rows deleted with the row they name (ON DELETE CASCADE)
ScansCascading(column, key) == SelectSeq(scans, LAMBDA r : r[column] # key)

\* scans declares no foreign key: a DELETE FROM campaigns or FROM
\* physical_devices leaves every scan row that names the deleted row
ScansAfterDelete(column, key) == scans

\* DELETE /api/campaigns/{code}: app_original.py deletes the row, app.py and
\* the Flask service set active to false
delete_campaign(code) ==
    /\ UNCHANGED <<variant, workers, device_info, toggling, devices, staged, backups, pending, inflight, nextSid, now, failures>>
    /\ scans' = IF variant = "sync" /\ CampaignsWhere(code) # {}
                THEN ScansAfterDelete("campaign_code", code) ELSE scans
    /\ IF CampaignsWhere(code) = {}
       THEN /\ campaigns' = campaigns
            /\ last' = Response("delete_campaign", code,
                                IF variant = "flask" THEN 404 ELSE 200,
                                "json", "", FALSE, UnknownSid)
       ELSE /\ campaigns' = IF variant = "sync"
                            THEN campaigns \ CampaignsWhere(code)
                            ELSE { IF c.campaign_code = code
                                   THEN [c EXCEPT !.active = FALSE]
                                   ELSE c : c \in campaigns }
            /\ last' = Response("delete_campaign", code, 200, "json", "", TRUE, UnknownSid)

\* POST /api/qr/generate (app_original.py, QR library installed, no device
\* named): refused for a campaign that is missing or not active
generate_qr_from_campaign(code) ==
    /\ variant = "sync"
    /\ UNCHANGED <<variant, workers, device_info, toggling, devices, staged, backups, campaigns, scans, pending, inflight, nextSid, now, failures>>
    /\ last' = Response("generate_qr", code, 200, "json", "",
                        /\ CampaignsWhere(code) # {}
                        /\ OneOf(CampaignsWhere(code)).active,
                        UnknownSid)

\* ---------------------------------------------------------------- devices
DevicesWhere(device_id) == { d \in devices : d.device_id = device_id }

\* fault injection: a device pre-check and constraint that never find the id
DeviceNeverTaken(device_id) == FALSE

\* the SELECT before the INSERT, and device_id TEXT NOT NULL UNIQUE behind it
DeviceTaken(device_id) == DevicesWhere(device_id) # {}

\* POST /api/devices of the FastAPI services
create_device(d) ==
    /\ FastApi
    /\ UNCHANGED <<variant, workers, device_info, toggling, staged, backups, campaigns, scans, pending, inflight, nextSid, now, failures>>
    /\ IF DeviceTaken(d.device_id)
       THEN /\ devices' = devices
            /\ last' = Response("create_device", d, 200, "json", "", FALSE, UnknownSid)
       ELSE /\ devices' = devices \cup {d}
            /\ last' = Response("create_device", d, 200, "json", "", TRUE, UnknownSid)

\* PUT /api/devices/{device_id} with a device_name
update_device(device_id, u) ==
    /\ FastApi
    /\ UNCHANGED <<variant, workers, device_info, toggling, staged, backups, campaigns, scans, pending, inflight, nextSid, now, failures>>
    /\ IF DevicesWhere(device_id) = {}
       THEN /\ devices' = devices
            /\ last' = Response("update_device", u, 200, "json", "", FALSE, UnknownSid)
       ELSE /\ devices' = { IF d.device_id = device_id
                            THEN [d EXCEPT !.device_name = u.device_name[1]]
                            ELSE d : d \in devices }
            /\ last' = Response("update_device", u, 200, "json", "", TRUE, UnknownSid)

\* DELETE /api/devices/{device_id}: the row is deleted
delete_device(device_id) ==
    /\ FastApi
    /\ UNCHANGED <<variant, workers, device_info, toggling, staged, backups, campaigns, pending, inflight, nextSid, now, failures>>
    /\ scans' = IF DevicesWhere(device_id) # {}
                THEN ScansAfterDelete("device_id", device_id) ELSE scans
    /\ IF DevicesWhere(device_id) = {}
       THEN /\ devices' = devices
            /\ last' = Response("delete_device", device_id, 200, "json", "", FALSE, UnknownSid)
       ELSE /\ devices' = devices \ DevicesWhere(device_id)
            /\ last' = Response("delete_device", device_id, 200, "json", "", TRUE, UnknownSid)

\* ---------------------------------------------------------------- backups
\* the database file: every table in it
Database == [campaigns |-> campaigns, devices |-> devices, scans |-> scans]

\* create_backup("manual"): shutil.copy2 of the database file into the
\* backups directory (file names are left out: a file is what it holds)
create_backup == backups \cup {Database}

\* POST /api/admin/backups (app_original.py)
api_create_backup ==
    /\ variant = "sync"
    /\ Cardinality(create_backup) <= MaxBackups
    /\ backups' = create_backup
    /\ last' = Response("create_backup", NULL, 200, "json", "", TRUE, UnknownSid)
    /\ UNCHANGED <<variant, workers, device_info, toggling, devices, staged, campaigns, scans, pending, inflight, nextSid, now, failures>>

\* POST /api/admin/backups/restore with confirm and the name of a manual
\* backup: restore_backup copies the named file over the database file. The
\* pre-restore copy it writes first is a file no request here names, and is
\* left out of backups.
api_restore_backup(file) ==
    /\ variant = "sync"
    /\ file \in backups
    /\ backups' = backups
    /\ campaigns' = file.campaigns
    /\ devices' = file.devices
    /\ scans' = file.scans
    /\ last' = Response("restore_backup", NULL, 200, "json", "", TRUE, UnknownSid)
    /\ UNCHANGED <<variant, workers, device_info, toggling, staged, pending, inflight, nextSid, now, failures>>

\* ---------------------------------------------------------------- classifier
\* the substrings get_device_info looks for; a User-Agent is modelled by the
\* set of those that occur in its lower-cased text, the empty header (and
\* None) by the empty set
Patterns == {"mobile", "android", "iphone", "tablet", "ipad", "chrome", "firefox",
             "safari", "edge", "windows", "mac", "linux"}
UserAgents == { ua \in SUBSET Patterns : Cardinality(ua) <= MaxPatterns }

\* get_device_info of the Flask service
get_device_info(ua) ==
    [device_type |-> IF "mobile" \in ua \/ "android" \in ua \/ "iphone" \in ua
                     THEN "Mobile"
                     ELSE IF "tablet" \in ua \/ "ipad" \in ua THEN "Tablet"
                     ELSE "Desktop",
     browser |-> IF "chrome" \in ua THEN "Chrome"
                 ELSE IF "firefox" \in ua THEN "Firefox"
                 ELSE IF "safari" \in ua /\ "chrome" \notin ua THEN "Safari"
                 ELSE IF "edge" \in ua THEN "Edge"
                 ELSE "Other",
     operating_system |-> IF "android" \in ua THEN "Android"
                          ELSE IF "iphone" \in ua \/ "ipad" \in ua THEN "iOS"
                          ELSE IF "windows" \in ua THEN "Windows"
                          ELSE IF "mac" \in ua THEN "macOS"
                          ELSE IF "linux" \in ua THEN "Linux"
                          ELSE "Other"]

\* what user_agents.parse hands to app_original.py: it raises, or gives the
\* three flags and the family and version strings of browser and system
ParsedAgents ==
    { [raises |-> TRUE] } \cup
    [raises : {FALSE}, is_mobile : BOOLEAN, is_tablet : BOOLEAN, is_pc : BOOLEAN,
     browser_family : {"Other", "Chrome"}, browser_version : {"", "120.0"},
     os_family : {"Other", "Android"}, os_version : {"", "14"}]

\* what DeviceDetector(...).parse() hands to app.py
DetectedAgents ==
    { [raises |-> TRUE] } \cup
    [raises : {FALSE}, device_type : {"", "smartphone", "desktop"},
     os_name : {"", "Android"}, os_version : {"", "14"},
     client_name : {"", "Chrome Mobile"}, client_version : {"", "120.0"}]

UnknownInfo ==
    [device_type |-> "Unknown", browser |-> "Unknown", operating_system |-> "Unknown"]

\* detect_device_info of app_original.py
detect_device_info(parsed) ==
    IF parsed.raises THEN UnknownInfo
    ELSE [device_type |-> IF parsed.is_mobile THEN "Mobile"
                          ELSE IF parsed.is_tablet THEN "Tablet"
                          ELSE IF parsed.is_pc THEN "Desktop"
                          ELSE "Unknown",
          browser |-> parsed.browser_family \o " " \o parsed.browser_version,
          operating_system |-> parsed.os_family \o " " \o parsed.os_version]

\* detect_device_info of app.py
detect_device_info_fast(device) ==
    IF device.raises THEN UnknownInfo
    ELSE LET os_info == IF device.os_version # ""
                        THEN device.os_name \o " " \o device.os_version
                        ELSE device.os_name
             client_info == IF device.client_version # ""
                            THEN device.client_name \o " " \o device.client_version
                            ELSE device.client_name
         IN  [device_type |-> IF device.device_type # "" THEN device.device_type
                              ELSE "Unknown",
              browser |-> IF client_info # "" THEN client_info ELSE "Unknown",
              operating_system |-> IF os_info # "" THEN os_info ELSE "Unknown"]

\* the handler classifies the User-Agent header of a request
classify(ua) ==
    /\ device_info' = Some([user_agent |-> ua,
                            info |-> IF variant = "flask" THEN get_device_info(ua)
                                     ELSE IF variant = "sync" THEN detect_device_info(ua)
                                     ELSE detect_device_info_fast(ua)])
    /\ last' = NoResponse
    /\ UNCHANGED <<variant, workers, toggling, devices, staged, backups, campaigns, scans,
                   pending, inflight, nextSid, now, failures>>

\* ---------------------------------------------------------------- clock
Tick ==
    /\ now < MaxTime
    /\ now' = now + 1
    /\ last' = NoResponse
    /\ UNCHANGED <<variant, workers, device_info, toggling, devices, staged, backups, campaigns, scans, pending, inflight, nextSid, failures>>

\* ---------------------------------------------------------------- system
\* the tracking pipeline with the campaign administration beside it
NextTrack ==
    \/ \E req \in TrackRequests : track_qr_scan(req)
    \/ \E req \in TrackRequests : track_access(req)
    \/ \E task \in pending : track_insert(task)
    \/ \E task \in pending : process_scan_background(task)
    \/ \E c \in CampaignCreates : create_campaign(c)
    \/ \E code \in Codes, u \in CampaignUpdates : update_campaign(code, u)

\* the follow-up calls of the redirect page beside the scans they refer to
NextFollow ==
    \/ Tick
    \/ track_qr_scan(ScanRequest)
    \/ track_access(ScanRequest)
    \/ \E task \in pending : track_insert(task)
    \/ \E task \in pending : process_scan_background(task)
    \/ \E d \in DeviceDataUpdates : track_device_data(d)
    \/ \E d \in DeviceDataUpdates : collect_additional_data(d)
    \/ \E req \in CompleteRequests : complete_read(req)
    \/ \E c \in inflight : complete_tracking(c)
    \/ \E c \in inflight : complete_redirect(c)

\* scans of a campaign that is created, paused, resumed and deleted
NextPause ==
    \/ \E req \in TrackRequests : track_qr_scan(req)
    \/ \E req \in TrackRequests : track_access(req)
    \/ \E task \in pending : track_insert(task)
    \/ \E task \in pending : process_scan_background(task)
    \/ \E c \in CampaignCreates : create_campaign(c)
    \/ pause_campaign(SeedCode)
    \/ delete_campaign(SeedCode)
    \/ generate_qr_from_campaign(SeedCode)

\* the administration of one campaign and one device beside the scans that
\* name them, and the backups of the database file
NextAdmin ==
    \/ track_qr_scan(ScanRequest)
    \/ track_access(ScanRequest)
    \/ \E task \in pending : track_insert(task)
    \/ \E task \in pending : process_scan_background(task)
    \/ create_campaign(SeedCampaign)
    \/ \E u \in CampaignUpdates : update_campaign(SeedCode, u)
    \/ pause_campaign(SeedCode)
    \/ delete_campaign(SeedCode)
    \/ generate_qr_from_campaign(SeedCode)
    \/ create_device(SeedDevice)
    \/ \E u \in DeviceUpdates : update_device(ScanDevice, u)
    \/ delete_device(ScanDevice)
    \/ api_create_backup
    \/ \E file \in backups : api_restore_backup(file)

\* a scan that is enriched and completed, more than once, between backups,
\* restores and the pause and delete of its campaign
NextRestore ==
    \/ track_qr_scan(ScanRequest)
    \/ track_access(ScanRequest)
    \/ \E task \in pending : track_insert(task)
    \/ \E task \in pending : process_scan_background(task)
    \/ \E d \in DeviceDataUpdates : track_device_data(d)
    \/ \E d \in DeviceDataUpdates : collect_additional_data(d)
    \/ \E req \in RepeatedCompletes : complete_read(req)
    \/ \E c \in inflight : complete_tracking(c)
    \/ \E c \in inflight : complete_redirect(c)
    \/ pause_campaign(SeedCode)
    \/ delete_campaign(SeedCode)
    \/ api_create_backup
    \/ \E file \in backups : api_restore_backup(file)

\* scans of a campaign whose destination is updated and that is deleted and
\* created again while they are in progress
NextRace ==
    \/ track_qr_scan(ScanRequest)
    \/ track_access(ScanRequest)
    \/ \E task \in pending : track_insert(task)
    \/ \E task \in pending : process_scan_background(task)
    \/ create_campaign(SeedCampaign)
    \/ \E u \in CampaignUpdates : update_campaign(SeedCode, u)
    \/ delete_campaign(SeedCode)

\* pause requests served side by side, between scans of the campaign and
\* its creation and deletion
NextToggle ==
    \/ pause_select(SeedCode)
    \/ \E p \in toggling : pause_update(p)
    \/ create_campaign(SeedCampaign)
    \/ delete_campaign(SeedCode)
    \/ generate_qr_from_campaign(SeedCode)
    \/ track_qr_scan(ScanRequest)
    \/ track_access(ScanRequest)
    \/ \E task \in pending : track_insert(task)
    \/ \E task \in pending : process_scan_background(task)

\* creates of campaigns and devices, concurrent ones included, and the
\* deletes that make a code or an id free again
NextCreate ==
    \/ \E c \in AdminCreates : create_campaign(c)
    \/ \E c \in staged : create_campaign_insert(c)
    \/ \E code \in AdminCodes : delete_campaign(code)
    \/ \E d \in DeviceCreates : create_device(d)
    \/ delete_device(ScanDevice)

\* tracking requests for one campaign processed side by side
NextConcurrent ==
    \/ \E req \in CampaignRequests : track_qr_scan(req)
    \/ \E req \in CampaignRequests : track_access(req)
    \/ \E task \in pending : track_insert(task)
    \/ \E task \in pending : process_scan_background(task)

\* the classification of the User-Agent headers the services receive
NextClassify ==
    \E ua \in IF variant = "flask" THEN UserAgents
               ELSE IF variant = "sync" THEN ParsedAgents ELSE DetectedAgents :
        classify(ua)

\* a store that fails an INSERT INTO scans or a SELECT on campaigns
Fault ==
    \/ \E task \in pending : insert_failure(task)
    \/ \E req \in TrackRequests : lookup_failure(req)

Next ==
    \/ NextTrack \/ NextFollow \/ NextPause \/ NextAdmin \/ NextCreate
    \/ NextConcurrent \/ NextClassify \/ NextRestore \/ NextRace \/ NextToggle

Spec == Init /\ [][Next]_vars

\* the parts of Spec the properties below are checked in: the state space of
\* Spec is the product of what the parts reach, and no action of one part
\* reads or writes what the properties of another part are about
SpecTrack == Init /\ [][NextTrack]_vars
SpecTrackFault == Init /\ [][NextTrack \/ Fault]_vars
SpecFollow == Init /\ [][NextFollow]_vars
SpecPause == Init /\ [][NextPause]_vars
SpecAdmin == Init /\ [][NextAdmin]_vars
SpecCreate == Init /\ [][NextCreate]_vars
SpecClassify == Init /\ [][NextClassify]_vars
SpecRestore == Init /\ [][NextRestore]_vars
SpecRace == Init /\ [][NextRace]_vars
SpecToggle == InitConcurrent /\ [][NextToggle]_vars
SpecConcurrent == InitConcurrent /\ [][NextConcurrent]_vars

\* a background task that was scheduled is run: Starlette runs the tasks of
\* a response once the response is sent, and the INSERT ends, in a row or in
\* the except branch
BackgroundRuns ==
    /\ variant = "deferred"
    /\ \E task \in pending : process_scan_background(task) \/ insert_failure(task)

\* tracking with a store that may fail, on a server that keeps running
SpecBackground ==
    Init /\ [][NextConcurrent \/ Fault]_vars /\ WF_vars(BackgroundRuns)

\* ================================================================ properties
\* the step answers a GET /track
TrackAnswered == last'.op = "track"
\* the step answers it with a redirect (307, or the redirect page)
TrackRedirected == last'.op = "track" /\ last'.kind = "redirect"
\* the resolved request the answer of this step belongs to
AnsweredTask == OneOf({ t \in pending \cup pending' : t.session_id = last'.session_id })
\* the step appends a row to the scans table
RowAdded == Len(scans') = Len(scans) + 1 /\ SubSeq(scans', 1, Len(scans)) = scans
AddedRow == scans'[Len(scans')]

C2_AsClaimed ==
    [][ (TrackRedirected /\ FastApi /\ last'.req.destination = ""
           /\ AnsweredTask.stored # {})
          => last'.target = OneOf(AnsweredTask.stored).destination ]_vars

\* C2 amended: ... is redirected to the stored destination when that is not
\* empty; a campaign stored with an empty destination is redirected to the
\* search URL built from its code.
C2_Amended ==
    [][ (TrackAnswered /\ FastApi /\ last'.req.campaign # ""
           /\ last'.req.destination = "" /\ AnsweredTask.stored # {})
          => /\ last'.kind = "redirect"
             /\ last'.target =
                  IF OneOf(AnsweredTask.stored).destination # ""
                  THEN OneOf(AnsweredTask.stored).destination
                  ELSE SearchPrefix \o last'.req.campaign ]_vars

\* a request was redirected to the destination an update had stored
C2_Witness ==
    /\ FastApi
    /\ last.op = "track"
    /\ last.kind = "redirect"
    /\ last.req.destination = ""
    /\ last.target = AltDestination

\* ---------------------------------------------------------------- C3
\* C3: a request that names a campaign and a non-empty destination is
\* redirected to that destination and its scan row records that destination,
\* whether or not the campaign is stored and whatever the store holds for it;
\* no later step changes a recorded destination.
C3_ParameterWins ==
    [][ /\ (TrackAnswered /\ last'.req.campaign # "" /\ last'.req.destination # "")
          => /\ last'.kind = "redirect"
             /\ last'.target = last'.req.destination
        /\ RowAdded
          => LET task == OneOf({ t \in pending : t.session_id = AddedRow.session_id })
             IN  (task.req.campaign # "" /\ task.req.destination # "")
                   => AddedRow.destination = task.req.destination
        /\ \A i \in 1..Len(scans) :
             i <= Len(scans') /\ scans'[i].destination = scans[i].destination ]_vars

\* a request was sent to its own destination although the store holds
\* another one for its campaign, and the row says the same
C3_Witness ==
    /\ last.op = "track"
    /\ last.kind = "redirect"
    /\ last.req.campaign = SeedCode
    /\ last.target = ParamDestination
    /\ \E c \in campaigns : c.campaign_code = SeedCode /\ c.destination = SeedDestination
    /\ \E i \in 1..Len(scans) :
         /\ scans[i].session_id = last.session_id
         /\ scans[i].destination = ParamDestination

\* ---------------------------------------------------------------- C4
\* C4 (FastAPI variants): a request whose campaign is not stored and that
\* names no destination is redirected, never refused, and to the search
\* prefix followed by the requested code, which depends on the code alone.
C4_UnknownFallsBack ==
    [][ (TrackAnswered /\ FastApi /\ last'.req.campaign # ""
           /\ last'.req.destination = "" /\ AnsweredTask.stored = {})
          => /\ last'.kind = "redirect"
             /\ last'.target = SearchPrefix \o last'.req.campaign ]_vars

\* a request for a code nobody created was redirected to the search URL
C4_Witness ==
    /\ FastApi
    /\ last.op = "track"
    /\ last.kind = "redirect"
    /\ last.req.campaign = GhostCode
    /\ last.target = SearchPrefix \o GhostCode

\* ---------------------------------------------------------------- C5
\* the sessions whose request was answered with a redirect: the deferred
\* variant answers when it hands the session id out, the others after the insert
Redirected ==
    IF variant = "deferred" THEN 1..(nextSid - 1)
    ELSE { scans[i].session_id : i \in 1..Len(scans) }
Processed(sid) == \A t \in pending : t.session_id # sid

\* C5 as claimed: every request answered with a redirect adds exactly one
\* row, never none and never two (counted once its insert is no longer
\* outstanding), and no two rows share a session_id.
C5_AsClaimed ==
    /\ \A sid \in Redirected :
         Processed(sid) => Cardinality(RowsOfSession(sid)) = 1
    /\ \A i, j \in 1..Len(scans) : scans[i].session_id = scans[j].session_id => i = j

\* C5 amended: every request answered with a redirect adds at most one row
\* and never two: the insert-first variants answer with the redirect page
\* only after their one insert, and the deferred variant adds the one row
\* when the background task runs, or none when the store fails that insert
\* (logged, the visitor being redirected already); no two rows share a
\* session_id, and every row carries a session id handed to a request.
C5_Amended ==
    /\ \A i, j \in 1..Len(scans) : scans[i].session_id = scans[j].session_id => i = j
    /\ \A i \in 1..Len(scans) :
         scans[i].session_id \in 1..(nextSid - 1) /\ Processed(scans[i].session_id)
    /\ Len(scans) + failures + Cardinality(pending) = nextSid - 1
    /\ (last.op = "track" /\ last.kind = "redirect" /\ variant # "deferred")
         => Cardinality(RowsOfSession(last.session_id)) = 1

\* two visitors were redirected by the deferred variant; one insert ran, the
\* other failed
C5_Witness ==
    /\ variant = "deferred"
    /\ nextSid = 3
    /\ pending = {}
    /\ Len(scans) = 1
    /\ failures = 1

\* ---------------------------------------------------------------- follow-ups
\* the completion call whose UPDATE this step executes
CompletedCall == OneOf({ c \in inflight : c \notin inflight' })
\* the step answers a completion call that went through its SELECT and UPDATE
CompletionAnswered == last'.op = "complete" /\ inflight' # inflight
\* row i is the row a completion request addresses
Addresses(req, i) ==
    /\ scans[i].session_id = req.session_id
    /\ variant = "flask" \/ req.scan_id = Some(scans[i].id)
CompletionColumns == {"redirect_completed", "redirect_timestamp", "duration_seconds"}
OtherColumns == {"id", "session_id", "campaign_code", "client", "destination", "device_id",
                 "utm_source", "scan_timestamp"}

\* ---------------------------------------------------------------- C6
\* C6 as claimed: an enrichment call and a completion call whose session_id
\* matches no row both answer success = false without an error status and
\* leave the table as it was.
C6_AsClaimed ==
    [][ (last'.op \in {"device-data", "complete"}
           /\ RowsOfSession(last'.session_id) = {})
          => /\ last'.success = FALSE
             /\ last'.status < 400
             /\ scans' = scans ]_vars

\* ---------------------------------------------------------------- C9
\* C9 as claimed: a completion call carrying the completion time t for an
\* existing row sets redirect_completed and stores duration_seconds =
\* t - scan_timestamp, t being the time the client reported.
C9_AsClaimed ==
    [][ \A i \in 1..Len(scans) :
          (CompletionAnswered /\ variant \in {"sync", "flask"}
             /\ Addresses(last'.req, i) /\ last'.req.completion_time # NULL)
            => /\ scans'[i].redirect_completed
               /\ scans'[i].duration_seconds =
                    Some(last'.req.completion_time[1].t - scans[i].scan_timestamp[1].t)
      ]_vars

\* ---------------------------------------------------------------- C7
\* C7 as claimed: a completion call for a row that an earlier call already
\* completed leaves redirect_completed true and stores the duration of this
\* later call (its completion time minus scan_timestamp, in whole seconds
\* where the variant stores whole seconds), whatever the earlier call
\* stored; it raises no error and adds no row.
C7_AsClaimed ==
    [][ \A i \in 1..Len(scans) :
          (CompletionAnswered /\ variant \in {"sync", "flask"}
             /\ Addresses(last'.req, i) /\ scans[i].redirect_completed
             /\ (variant = "sync" => last'.req.completion_time # NULL))
            => /\ scans'[i].redirect_completed
               /\ scans'[i].duration_seconds =
                    IF variant = "flask"
                    THEN Some(IntSeconds(CompletedCall.redirect_time
                                           - scans[i].scan_timestamp[1].t))
                    ELSE Some(last'.req.completion_time[1].t
                                - scans[i].scan_timestamp[1].t)
               /\ last'.status < 400
               /\ Len(scans') = Len(scans) ]_vars

\* ---------------------------------------------------------------- C10
\* C10 as claimed: an enrichment call changes only the eight enrichment
\* columns of the rows with its session_id, setting each field it supplies
\* to the supplied value; their other columns and all other rows stay.
C10_AsClaimed ==
    [][ last'.op = "device-data"
          => /\ Len(scans') = Len(scans)
             /\ \A i \in 1..Len(scans) :
                  IF scans[i].session_id = last'.req.session_id
                  THEN /\ \A col \in EnrichColumns :
                            last'.req[col] # NULL => scans'[i][col] = last'.req[col]
                       /\ \A col \in OtherColumns \cup CompletionColumns :
                            scans'[i][col] = scans[i][col]
                  ELSE scans'[i] = scans[i] ]_vars

\* ---------------------------------------------------------------- C8
\* what a completion call would store in the row had it read the row in the
\* step of its UPDATE
AtomicCompletion(row, c) ==
    IF variant = "flask"
    THEN [row EXCEPT !.redirect_completed = TRUE,
                     !.redirect_timestamp = Some(IsoString(c.redirect_time, "")),
                     !.duration_seconds =
                         Some(IntSeconds(c.redirect_time - row.scan_timestamp[1].t))]
    ELSE [row EXCEPT !.redirect_completed = TRUE,
                     !.redirect_timestamp = Some(IsoString(now, "")),
                     !.duration_seconds =
                         IF c.req.completion_time # NULL
                            /\ (c.req.completion_time[1].tz = "Z")
                                 = (row.scan_timestamp[1].tz = "Z")
                         THEN Some(c.req.completion_time[1].t - row.scan_timestamp[1].t)
                         ELSE NULL]

\* C8: enrichment and completion of one existing row commute, also when the
\* enrichment UPDATE falls between the completion's SELECT and its UPDATE:
\* the enrichment writes its own columns as supplied and leaves the
\* completion columns, scan_timestamp and the calls in flight alone, and the
\* completion UPDATE stores what a completion executed in one step at that
\* moment would store, leaving the enrichment columns alone.
C8_Commute ==
    [][ /\ (last'.op = "device-data" /\ variant \in {"sync", "flask"})
          => /\ inflight' = inflight
             /\ Len(scans') = Len(scans)
             /\ \A i \in 1..Len(scans) :
                  /\ \A col \in OtherColumns \cup CompletionColumns :
                       scans'[i][col] = scans[i][col]
                  /\ scans[i].session_id = last'.req.session_id
                       => IF variant = "sync"
                          THEN \A col \in EnrichColumns : scans'[i][col] = last'.req[col]
                          ELSE scans'[i].screen_resolution \in
                                 {last'.req.screen_resolution, Some("")}
        /\ (CompletionAnswered /\ variant \in {"sync", "flask"}
              /\ CompletedCall.result # NULL)
          => /\ Len(scans') = Len(scans)
             /\ \A i \in 1..Len(scans) :
                  scans'[i] = IF Addresses(last'.req, i)
                              THEN AtomicCompletion(scans[i], CompletedCall)
                              ELSE scans[i] ]_vars

\* the enrichment of a row has just been applied while a completion call
\* for the same row is between its SELECT and its UPDATE
C8_Witness ==
    /\ variant = "sync"
    /\ last.op = "device-data"
    /\ last.success
    /\ \E c \in inflight :
         /\ c.result # NULL
         /\ c.req.session_id = last.session_id
         /\ c.req.completion_time = NaiveTime
         /\ \E i \in CompletionRows(c.req) :
              \A col \in EnrichColumns : scans[i][col] = FullData(1)[col]

\* ---------------------------------------------------------------- C11
\* the resolved request whose row this step appends
InsertedTask == OneOf({ t \in pending : t.session_id = AddedRow.session_id })

\* C11 as claimed (FastAPI variants): a request that carries only the code
\* of a stored campaign and a utm_source leaves a row with that code, the
\* client stored for the campaign, the request's utm_source, and
\* redirect_completed false.
C11_AsClaimed ==
    [][ (RowAdded /\ FastApi
           /\ InsertedTask.req.campaign # "" /\ InsertedTask.req.destination = ""
           /\ InsertedTask.req.client = "" /\ InsertedTask.req.utm_source # ""
           /\ InsertedTask.stored # {})
          => /\ AddedRow.campaign_code = InsertedTask.req.campaign
             /\ AddedRow.client = OneOf(InsertedTask.stored).client
             /\ AddedRow.utm_source = Some(InsertedTask.req.utm_source)
             /\ AddedRow.redirect_completed = FALSE ]_vars

\* ---------------------------------------------------------------- C12
\* SELECT * FROM scans WHERE session_id = ?, after the step
ReadBack(sid) == { scans'[i] : i \in { j \in 1..Len(scans') : scans'[j].session_id = sid } }

\* C12: read back by session_id right after its insert, a row of
\* app_original.py holds every value the insert supplied (session id, code,
\* client, destination, utm_source, the insert's timestamp), NULL in the
\* eight enrichment columns and in the completion time and duration, and
\* redirect_completed false; it is the only row of its session.
C12_RoundTrip ==
    [][ (RowAdded /\ variant = "sync")
          => \E r \in ReadBack(InsertedTask.session_id) :
               /\ ReadBack(InsertedTask.session_id) = {r}
               /\ r.id = Len(scans')
               /\ r.campaign_code = InsertedTask.campaign_code
               /\ r.client = InsertedTask.client
               /\ r.destination = InsertedTask.destination
               /\ r.utm_source = Some(InsertedTask.req.utm_source)
               /\ r.scan_timestamp = Some(IsoString(now, ""))
               /\ \A col \in EnrichColumns : r[col] = NULL
               /\ r.redirect_completed = FALSE
               /\ r.redirect_timestamp = NULL
               /\ r.duration_seconds = NULL ]_vars

\* a row of app_original.py with a utm_source and the stored client has
\* just been inserted beside an earlier one
C12_Witness ==
    /\ variant = "sync"
    /\ last.op = "track"
    /\ last.kind = "redirect"
    /\ Len(scans) = 2
    /\ scans[2].session_id = last.session_id
    /\ scans[2].utm_source = Some("flyer")
    /\ scans[2].client = SeedClient

\* ---------------------------------------------------------------- C13
\* some enrichment column of the row holds a value
AlreadyEnriched(row) == \E col \in EnrichColumns : row[col] # NULL

\* C13 as claimed (app_original.py): a row receives at most one enrichment
\* update and at most one completion update: no completion UPDATE is applied
\* to a row a completion already marked, and no enrichment UPDATE to a row
\* an enrichment already filled.
C13_AsClaimed ==
    [][ \A i \in 1..Len(scans) :
          /\ (CompletionAnswered /\ variant = "sync" /\ Addresses(last'.req, i))
               => ~scans[i].redirect_completed
          /\ (last'.op = "device-data" /\ variant = "sync"
                /\ scans[i].session_id = last'.req.session_id)
               => ~AlreadyEnriched(scans[i]) ]_vars

\* ---------------------------------------------------------------- C14
\* C14 as claimed (app_original.py): an enrichment call for a session whose
\* row an earlier call enriched answers success = false without an error
\* status.
C14_AsClaimed ==
    [][ (last'.op = "device-data" /\ variant = "sync"
           /\ \E i \in RowsOfSession(last'.req.session_id) : AlreadyEnriched(scans[i]))
          => /\ last'.success = FALSE
             /\ last'.status < 400 ]_vars

InactiveStored(task) == task.stored # {} /\ ~OneOf(task.stored).active
\* the resolved requests this step takes out of pending
Dropped == pending \ pending'

\* C16 as claimed (FastAPI variants): a request that names only the code of
\* a stored, inactive campaign is redirected to the destination stored for
\* it.
C16_AsClaimed ==
    [][ (TrackAnswered /\ FastApi /\ last'.req.campaign # ""
           /\ last'.req.destination = "" /\ InactiveStored(AnsweredTask))
          => /\ last'.kind = "redirect"
             /\ last'.target = OneOf(AnsweredTask.stored).destination ]_vars

\* C16 amended (FastAPI variants): a request that names only the code of a
\* stored, inactive campaign is redirected to the stored destination when
\* that is not empty and to the search URL of the code when it is; its
\* insert is made or scheduled by the answering step, and every resolved
\* request leaves pending by appending its row, with its campaign code and
\* the destination it was redirected to. QR generation answers success
\* exactly for a stored, active campaign and writes nothing.
C16_Amended ==
    /\ [][ (TrackAnswered /\ FastApi /\ last'.req.campaign # ""
              /\ last'.req.destination = "" /\ InactiveStored(AnsweredTask))
             => /\ last'.kind = "redirect"
                /\ last'.target =
                     IF OneOf(AnsweredTask.stored).destination # ""
                     THEN OneOf(AnsweredTask.stored).destination
                     ELSE SearchPrefix \o last'.req.campaign
                /\ AnsweredTask.destination = last'.target
                /\ IF variant = "deferred"
                   THEN AnsweredTask \in pending'
                   ELSE AnsweredTask \in Dropped ]_vars
    /\ [][ FastApi =>
             \A t \in Dropped :
                /\ RowAdded
                /\ AddedRow.session_id = t.session_id
                /\ AddedRow.campaign_code = t.req.campaign
                /\ AddedRow.destination = t.destination ]_vars
    /\ [][ last'.op = "generate_qr"
             => /\ last'.success = (/\ CampaignsWhere(last'.req) # {}
                                    /\ OneOf(CampaignsWhere(last'.req)).active)
                /\ scans' = scans /\ pending' = pending
                /\ campaigns' = campaigns ]_vars

\* a request was answered with a redirect to the destination of the
\* campaign its lookup found inactive, and its insert is scheduled
C16_Witness ==
    /\ FastApi
    /\ last.op = "track"
    /\ last.kind = "redirect"
    /\ last.target = SeedDestination
    /\ \E t \in pending :
          /\ t.session_id = last.session_id
          /\ InactiveStored(t)
          /\ t.destination = SeedDestination

\* ---------------------------------------------------------------- C17
\* the answers of the administrative operations on campaigns and devices
AdminOps == {"create_campaign", "update_campaign", "pause_campaign", "delete_campaign",
             "create_device", "update_device", "delete_device"}
\* every row of scans is still there, under its id and session_id
RowsKept ==
    /\ Len(scans') >= Len(scans)
    /\ \A i \in 1..Len(scans) : /\ scans'[i].id = scans[i].id
                                /\ scans'[i].session_id = scans[i].session_id

\* C17 as claimed: a step that answers a create, update, pause or delete of
\* a campaign or a device leaves the scans table as it was, every column of
\* every row, and no step of any endpoint takes a row out of the table.
C17_AsClaimed ==
    /\ [][ last'.op \in AdminOps => scans' = scans ]_vars
    /\ [][ RowsKept ]_vars

\* C17 amended: ... leaves the scans table as it was; no step other than a
\* backup restore takes a row out of the table, and a restore replaces the
\* table by the one of the backup file it names.
C17_Amended ==
    /\ [][ last'.op \in AdminOps => scans' = scans ]_vars
    /\ [][ last'.op # "restore_backup" => RowsKept ]_vars
    /\ [][ last'.op = "restore_backup" => \E file \in backups : scans' = file.scans ]_vars

\* a device was deleted and a campaign's destination changed while a scan
\* row names that device and holds the destination of its day
C17_Witness ==
    /\ last.op = "delete_device"
    /\ last.success
    /\ devices = {}
    /\ Len(scans) > 0
    /\ scans[1].device_id = ScanDevice
    /\ scans[1].destination = SeedDestination
    /\ \E c \in campaigns : c.campaign_code = scans[1].campaign_code
                           /\ c.destination = AltDestination

\* ---------------------------------------------------------------- C18
\* C18 as claimed (FastAPI variants): whatever the store does, a GET /track
\* with a non-empty campaign parameter is answered with a redirect and never
\* with a 5xx.
C18_AsClaimed ==
    [][ (TrackAnswered /\ FastApi /\ last'.req.campaign # "")
          => /\ last'.kind = "redirect"
             /\ last'.status < 500 ]_vars

\* ---------------------------------------------------------------- C19
\* the step runs the INSERT of a campaign create and answers it
CreateAnswered == last'.op = "create_campaign" /\ last'.status # 400 /\ last'.status # 409

\* C19: no state holds two campaign rows with one code, whatever creates ran
\* and however the Flask creates past their pre-check interleave; an INSERT
\* stores its row when the code is free and stores nothing when it is taken,
\* so that of the creates of one code exactly the first to insert is stored.
C19_OneRowPerCode ==
    /\ [](\A code \in AdminCodes : Cardinality(CampaignsWhere(code)) <= 1)
    /\ [][ CreateAnswered
             => IF CampaignsWhere(last'.req.campaign_code) = {}
                THEN last'.success /\ campaigns' = campaigns \cup {last'.req}
                ELSE ~last'.success /\ campaigns' = campaigns ]_vars

\* two creates of one code had both passed the pre-check: the first to
\* insert is stored, the second was rejected by the constraint
C19_Witness ==
    /\ variant = "flask"
    /\ last.op = "create_campaign"
    /\ last.status = 500
    /\ last.req.campaign_code = NewCode
    /\ last.req \notin campaigns
    /\ Cardinality(CampaignsWhere(NewCode)) = 1

\* ---------------------------------------------------------------- C20
\* C20: a create that names a campaign code already stored is answered with
\* a JSON failure body and leaves the campaigns table as it was; a create
\* that names a device id already stored likewise leaves physical_devices
\* as it was.
C20_DuplicateRefused ==
    /\ [][ (last'.op = "create_campaign" /\ CampaignsWhere(last'.req.campaign_code) # {})
             => /\ last'.kind = "json"
                /\ last'.success = FALSE
                /\ campaigns' = campaigns ]_vars
    /\ [][ (last'.op = "create_device" /\ DevicesWhere(last'.req.device_id) # {})
             => /\ last'.kind = "json"
                /\ last'.success = FALSE
                /\ devices' = devices ]_vars

\* a create that would have stored other values for a stored code was
\* refused, and so was one for a stored device id before it
C20_Witness ==
    /\ last.op = "create_campaign"
    /\ last.success = FALSE
    /\ last.req \notin campaigns
    /\ CampaignsWhere(last.req.campaign_code) # {}
    /\ \E d \in DeviceCreates : d \notin devices /\ DevicesWhere(d.device_id) # {}

\* ---------------------------------------------------------------- C21
\* the header matches nothing the classifier knows
Unmatched(ua) ==
    IF variant = "flask" THEN ua = {}
    ELSE IF ua.raises THEN FALSE
    ELSE IF variant = "sync" THEN ~ua.is_mobile /\ ~ua.is_tablet /\ ~ua.is_pc
    ELSE /\ ua.device_type = "" /\ ua.os_name = "" /\ ua.client_name = ""
         /\ ua.os_version = "" /\ ua.client_version = ""
Sentinels == {"Unknown", "Other"}

\* C21 as claimed: a User-Agent that matches no pattern is classified with
\* the sentinel 'Unknown' or 'Other' as device type, and, where the service
\* itself decides them, as browser and operating system.
C21_AsClaimed ==
    (device_info # NULL /\ Unmatched(device_info[1].user_agent))
       => /\ device_info[1].info.device_type \in Sentinels
          /\ variant # "sync" => /\ device_info[1].info.browser \in Sentinels
                                 /\ device_info[1].info.operating_system \in Sentinels

\* ---------------------------------------------------------------- C22
\* C22: with requests side by side, every session id handed out is that of
\* one request in progress or of one row, no two rows share a session_id,
\* and a request leaves pending only by appending one row behind the rows
\* that were there, which stay as they were, with its own session_id,
\* campaign code, destination and client.
C22_NoLostInsert ==
    /\ [](Len(scans) + Cardinality(pending) = nextSid - 1)
    /\ [](\A i, j \in 1..Len(scans) : scans[i].session_id = scans[j].session_id => i = j)
    /\ [][ /\ Cardinality(Dropped) <= 1
           /\ \A t \in Dropped :
                /\ RowAdded
                /\ AddedRow.session_id = t.session_id
                /\ AddedRow.campaign_code = t.req.campaign
                /\ AddedRow.destination = t.destination
                /\ AddedRow.client = t.client ]_vars

\* two requests were in progress together, the later one inserted first,
\* and both rows are in the table, each with its own destination
C22_Witness ==
    /\ workers = MaxWorkers
    /\ Len(scans) = 2
    /\ scans[1].session_id > scans[2].session_id
    /\ scans[1].destination # scans[2].destination
    /\ pending = {}

\* ---------------------------------------------------------------- C23
\* C23 (deferred variant): the step that answers with the redirect leaves
\* the table as it is and the insert scheduled; every session handed out is
\* eventually no longer scheduled; a scheduled insert ends by appending the
\* row of its session or by one logged failure, never both, and every
\* session handed out is scheduled, inserted once or failed once.
C23_RunsOnce ==
    /\ \A s \in 1..MaxScans :
          (variant = "deferred" /\ nextSid > s) ~> (nextSid > s /\ Processed(s))
    /\ [][ (variant = "deferred" /\ TrackRedirected)
             => scans' = scans /\ AnsweredTask \in pending' \ pending ]_vars
    /\ [][ variant = "deferred" =>
             /\ Cardinality(Dropped) <= 1
             /\ \A t \in Dropped :
                   \/ RowAdded /\ AddedRow.session_id = t.session_id
                               /\ failures' = failures
                   \/ scans' = scans /\ failures' = failures + 1 ]_vars
    /\ [](variant = "deferred" =>
             /\ Len(scans) + failures + Cardinality(pending) = nextSid - 1
             /\ \A s \in 1..MaxScans : Cardinality(RowsOfSession(s)) <= 1)

\* both inserts that were scheduled have run, one into a row and one into
\* the log
C23_Witness ==
    /\ variant = "deferred"
    /\ nextSid = MaxScans + 1
    /\ pending = {}
    /\ failures = 1
    /\ Len(scans) = MaxScans - 1

\* ---------------------------------------------------------------- C24
\* C24: in every state every scan row that holds a duration_seconds has
\* redirect_completed true.
C24_DurationImpliesCompleted ==
    \A i \in 1..Len(scans) :
        scans[i].duration_seconds # NULL => scans[i].redirect_completed

\* a completion stored a duration on a row
C24_Witness ==
    /\ last.op = "complete"
    /\ \E i \in 1..Len(scans) : /\ scans[i].duration_seconds # NULL
                                /\ scans[i].session_id = last.session_id

\* ---------------------------------------------------------------- C25
\* C25 (app_original.py): an enrichment call leaves every row of its session
\* with the eight enrichment columns as the call gave them, null where it
\* omitted one, whatever an earlier call had stored; every other column and
\* every other row stay, and a call that repeats what the row holds changes
\* nothing.
C25_LastWriteWins ==
    [][ (last'.op = "device-data" /\ variant = "sync")
          => /\ Len(scans') = Len(scans)
             /\ \A i \in 1..Len(scans) :
                  IF scans[i].session_id = last'.req.session_id
                  THEN /\ \A col \in EnrichColumns : scans'[i][col] = last'.req[col]
                       /\ \A col \in OtherColumns \cup CompletionColumns :
                            scans'[i][col] = scans[i][col]
                       /\ (\A col \in EnrichColumns : scans[i][col] = last'.req[col])
                            => scans'[i] = scans[i]
                  ELSE scans'[i] = scans[i] ]_vars

\* a call that gave two of the eight fields was applied: the row holds
\* those two and null in the six it omitted
C25_Witness ==
    /\ variant = "sync"
    /\ last.op = "device-data"
    /\ last.req = PartialData(1)
    /\ last.success
    /\ \E i \in 1..Len(scans) :
          /\ scans[i].session_id = 1
          /\ scans[i].timezone = PartialData(1).timezone
          /\ scans[i].cpu_cores = PartialData(1).cpu_cores
          /\ scans[i].screen_resolution = NULL
          /\ scans[i].platform = NULL

\* ---------------------------------------------------------------- C26
\* C26 (Flask variant): a request answered without an insert carried no
\* destination, and got 400 when it carried no campaign either and 404 when
\* its campaign has no active row; it leaves no row and schedules none. A
\* request that is inserted ends with a non-empty destination, gets the
\* redirect page for it and a row with it: with a destination parameter and
\* no campaign the row has campaign 'direct_link' and client 'unknown', with
\* both it has the request's campaign and client, and with a campaign only
\* the destination and client of an active row of that campaign.
C26_FlaskTracking ==
    /\ [][ (TrackAnswered /\ variant = "flask" /\ Dropped = {})
             => /\ scans' = scans
                /\ pending' = pending
                /\ last'.kind # "redirect"
                /\ last'.req.destination = ""
                /\ IF last'.req.campaign = "" THEN last'.status = 400
                   ELSE /\ last'.status = 404
                        /\ \A c \in CampaignsWhere(last'.req.campaign) : ~c.active ]_vars
    /\ [][ variant = "flask" =>
             \A t \in Dropped :
                /\ RowAdded
                /\ TrackRedirected
                /\ last'.status = 200
                /\ last'.target = AddedRow.destination
                /\ AddedRow.destination # ""
                /\ IF t.req.destination = ""
                   THEN /\ AddedRow.campaign_code = t.req.campaign
                        /\ \E c \in t.stored : /\ c.active
                                               /\ c.destination = AddedRow.destination
                                               /\ c.client = AddedRow.client
                   ELSE /\ AddedRow.destination = t.req.destination
                        /\ IF t.req.campaign = ""
                           THEN /\ AddedRow.campaign_code = "direct_link"
                                /\ AddedRow.client = "unknown"
                           ELSE /\ AddedRow.campaign_code = t.req.campaign
                                /\ AddedRow.client = t.req.client ]_vars

\* a request for the deactivated campaign was answered 404 after a request
\* with a destination, a client and no campaign had been recorded as a
\* direct link of client 'unknown'
C26_Witness ==
    /\ variant = "flask"
    /\ last.op = "track"
    /\ last.status = 404
    /\ \E c \in CampaignsWhere(last.req.campaign) : ~c.active
    /\ Len(scans) = 1
    /\ scans[1].campaign_code = "direct_link"
    /\ scans[1].client = "unknown"

\* ---------------------------------------------------------------- C27
\* a completed row is still there, the same row, and still completed
StaysCompleted ==
    \A i \in 1..Len(scans) :
        scans[i].redirect_completed
          => /\ i <= Len(scans')
             /\ scans'[i].id = scans[i].id
             /\ scans'[i].redirect_completed

\* C27 as claimed: no step of tracking, enrichment, completion (with or
\* without completion_time) or administration takes redirect_completed of a
\* row from true back to false.
C27_AsClaimed == [][ StaysCompleted ]_vars

\* C27 amended: no step other than a backup restore takes redirect_completed
\* of a row from true back to false; a restore gives every row the flag it
\* has in the backup file it names.
C27_Amended ==
    /\ [][ last'.op # "restore_backup" => StaysCompleted ]_vars
    /\ [][ last'.op = "restore_backup" => \E file \in backups : scans' = file.scans ]_vars

\* a row that a backup file holds completed with a duration was completed
\* again by a call without completion_time: it is still completed, and its
\* duration is null again
C27_Witness ==
    /\ last.op = "complete"
    /\ last.success
    /\ last.req.completion_time = NULL
    /\ Len(scans) > 0
    /\ scans[1].redirect_completed
    /\ scans[1].duration_seconds = NULL
    /\ \E file \in backups : /\ Len(file.scans) > 0
                              /\ file.scans[1].id = scans[1].id
                              /\ file.scans[1].redirect_completed
                              /\ file.scans[1].duration_seconds # NULL

\* ---------------------------------------------------------------- C28
\* C28: the destination a request is resolved to is the one its visitor is
\* sent to and the one its row records, whatever happens to the campaign
\* between the lookup and the insert: the deferred variant answers with the
\* destination of the insert it schedules, the other two answer with the
\* destination of the row they have just appended, and every insert records
\* the destination its request was resolved to when it was looked up.
C28_SameDestination ==
    /\ [][ TrackRedirected
             => IF variant = "deferred"
                THEN /\ AnsweredTask \in pending' \ pending
                     /\ AnsweredTask.destination = last'.target
                ELSE /\ RowAdded
                     /\ AddedRow.session_id = last'.session_id
                     /\ AddedRow.destination = last'.target ]_vars
    /\ [][ \A t \in Dropped :
             RowAdded => /\ AddedRow.session_id = t.session_id
                         /\ AddedRow.destination = t.destination ]_vars

\* the visitor was sent to the destination the lookup had found, the row
\* records it, and by the time of the insert the campaign had another one
C28_UpdatedWitness ==
    /\ variant = "sync"
    /\ last.op = "track"
    /\ last.kind = "redirect"
    /\ last.req.destination = ""
    /\ last.target = SeedDestination
    /\ \E i \in 1..Len(scans) : /\ scans[i].session_id = last.session_id
                                /\ scans[i].destination = SeedDestination
    /\ \E c \in campaigns : c.campaign_code = SeedCode /\ c.destination = AltDestination

\* ---------------------------------------------------------------- C29
\* the request of session sid is resolved and its insert has not run yet
InsertDue(sid) == \E t \in pending : t.session_id = sid

\* C29 (deferred variant): a completion call answered while the insert of
\* its session is still due changes no row and is answered 200, with
\* success when it names a scan id; the row the insert later appends is not
\* completed and has no duration and no redirect timestamp; and the
\* completion columns of a row change only in a step that answers a
\* completion call for the session of that row.
C29_NotReplayed ==
    /\ [][ (variant = "deferred" /\ last'.op = "complete"
              /\ InsertDue(last'.req.session_id))
             => /\ scans' = scans
                /\ pending' = pending
                /\ last'.status = 200
                /\ last'.kind # "error"
                /\ last'.req.scan_id # NULL => last'.success ]_vars
    /\ [][ variant = "deferred" =>
             \A t \in Dropped :
                RowAdded => /\ AddedRow.session_id = t.session_id
                            /\ ~AddedRow.redirect_completed
                            /\ AddedRow.duration_seconds = NULL
                            /\ AddedRow.redirect_timestamp = NULL ]_vars
    /\ [][ variant = "deferred" =>
             \A i \in 1..Len(scans) :
                /\ i <= Len(scans')
                /\ (\E col \in CompletionColumns : scans'[i][col] # scans[i][col])
                     => /\ last'.op = "complete"
                        /\ last'.req.session_id = scans[i].session_id ]_vars

\* a completion call that names session and scan id was answered with
\* success while the insert of that session was still due and no row existed
C29_Witness ==
    /\ variant = "deferred"
    /\ last.op = "complete"
    /\ last.success
    /\ last.req.scan_id # NULL
    /\ InsertDue(last.req.session_id)
    /\ scans = <<>>

\* ---------------------------------------------------------------- C30
\* C30 as claimed: every pause request answered with success has flipped the
\* active flag of its campaign, so that the flag after the answer is the
\* negation of the flag before it, however the SELECT and UPDATE steps of
\* pause requests for that campaign interleave; two of them leave the flag
\* as it was before both.
C30_AsClaimed ==
    [][ (last'.op = "pause_campaign" /\ last'.success)
          => \A c \in CampaignsWhere(last'.req) :
                \E d \in campaigns' : /\ d.campaign_code = c.campaign_code
                                      /\ d.active = ~c.active ]_vars

====
